---- MODULE Spec2Model ----
(***************************************************************************)
(* Model of app_tres_niveles_accion.py: a Streamlit page that keeps the    *)
(* daily plan of the "3 Niveles de Accion" method in registro_tareas.csv.  *)
(*                                                                         *)
(* The page is a script that Streamlit re-runs from the top on every       *)
(* interaction of a browser session.  A run is modelled in two steps: the  *)
(* load step (lines 83-91) and the body step (lines 96-148), so that runs  *)
(* of two sessions can interleave between the load and the save.           *)
(*                                                                         *)
(* The CSV file is modelled as text cells and the DataFrame as typed       *)
(* cells; to_csv and read_csv are modelled by what pandas does with the    *)
(* values this program hands them (column-wise type inference included).   *)
(***************************************************************************)
EXTENDS Integers, Sequences, FiniteSets, TLC

\* ---------------------------------------------------------------- bounds
\* Calendar dates are 1..MaxDate (stand-ins for consecutive ISO dates).
MaxDate == 3
\* Cap on the number of user interactions (date changes, form submissions,
\* checkbox clicks) in a behaviour.
MaxActions == 2

Dates == 1..MaxDate

\* ------------------------------------------------------ program constants
COLUMNS == <<"fecha", "nivel", "descripcion", "completada">>

\* The values of LEVEL_MAPPING in the order the submit branch uses them.
LEVEL_MAPPING == <<1, 2, 2, 3, 3, 3>>

\* df_tasks_sorted.head(14)
HistoryRows == 14

Sessions == {"A", "B"}

\* Texts a user types into the six st.text_input fields of the form.
FormInputs ==
  { <<"a", "b", "", "a", "b", "">>,
    <<"1", "", "", "", "", "">> }

\* ------------------------------------------------------------ cell values
\* DataFrame cells.  k is the Python type of the value.
\*   fecha:       "date" (datetime.date), "ts" (Timestamp at midnight),
\*                "str" (unparsed text; time says whether it ends in
\*                " 00:00:00"), "none" (None)
\*   nivel:       "int", "float", "nan", "none"
\*   descripcion: "str", "int", "float", "nan", "none"; s holds the text or,
\*                for numbers, the digits of the integral value
\*   completada:  "bool", "nan", "none"
DateCell(d) == [k |-> "date", d |-> d, time |-> FALSE]
TsCell(d) == [k |-> "ts", d |-> d, time |-> FALSE]
NoFecha == [k |-> "none", d |-> 0, time |-> FALSE]
IntCell(n) == [k |-> "int", n |-> n]
FloatCell(n) == [k |-> "float", n |-> n]
NullNum(kind) == [k |-> kind, n |-> 0]
StrCell(s) == [k |-> "str", s |-> s]
NullDesc(kind) == [k |-> kind, s |-> ""]
BoolCell(b) == [k |-> "bool", b |-> b]
NullBool(kind) == [k |-> kind, b |-> FALSE]

\* CSV text of numbers.  Only 1..3 occur (nivel values and the numeric text
\* of FormInputs).
IntTexts == <<"1", "2", "3">>
FloatTexts == <<"1.0", "2.0", "3.0">>
IsIntText(t) == \E n \in 1..3 : IntTexts[n] = t
IsFloatText(t) == \E n \in 1..3 : FloatTexts[n] = t
IsNumText(t) == IsIntText(t) \/ IsFloatText(t)
NumOfText(t) == CHOOSE n \in 1..3 : IntTexts[n] = t \/ FloatTexts[n] = t

\* CSV text of a fecha cell: the ISO date d, followed by " 00:00:00" when
\* time is TRUE.
FechaText(d, time) == [d |-> d, time |-> time]
NoText == [d |-> 0, time |-> FALSE]

\* The file registro_tareas.csv.  cols is the header line.
NoFile == [exists |-> FALSE, cols |-> {}, rows |-> <<>>]
AllCols == {COLUMNS[i] : i \in 1..Len(COLUMNS)}

Range(f) == {f[x] : x \in DOMAIN f}

\* ------------------------------------------------------------------ to_csv
\* A fecha column is datetime64 exactly when it is non-empty and holds only
\* Timestamps (a column read by read_csv); pd.concat with the datetime.date
\* objects of new_rows makes it an object column.
IsDatetime64(df) == Len(df) > 0 /\ \A i \in 1..Len(df) : df[i].fecha.k = "ts"

\* datetime64 columns whose values are all at midnight are written as dates;
\* in an object column csv.writer writes str(value), and str(Timestamp) ends
\* in " 00:00:00".
FormatFecha(c, dt64) ==
  CASE c.k = "date" -> FechaText(c.d, FALSE)
    [] c.k = "ts" -> FechaText(c.d, ~dt64)
    [] c.k = "str" -> FechaText(c.d, c.time)
    [] OTHER -> NoText

FormatNum(c) ==
  CASE c.k = "int" -> IntTexts[c.n]
    [] c.k = "float" -> FloatTexts[c.n]
    [] OTHER -> ""

FormatDesc(c) ==
  CASE c.k = "str" -> c.s
    [] c.k = "int" -> c.s
    [] c.k = "float" -> FloatTexts[NumOfText(c.s)]
    [] OTHER -> ""

FormatBool(c) ==
  CASE c.k = "bool" -> IF c.b THEN "True" ELSE "False"
    [] OTHER -> ""

\* df.to_csv(CSV_PATH, index=False): header plus one line per row; the whole
\* file is replaced.
to_csv(df) ==
  [exists |-> TRUE,
   cols |-> AllCols,
   rows |-> [i \in 1..Len(df) |->
              [fecha |-> FormatFecha(df[i].fecha, IsDatetime64(df)),
               nivel |-> FormatNum(df[i].nivel),
               descripcion |-> FormatDesc(df[i].descripcion),
               completada |-> FormatBool(df[i].completada)]]]

\* ---------------------------------------------------------------- read_csv
\* parse_dates=["fecha"].  With strict date parsing (pandas >= 2) the format
\* is guessed from the first value and a column whose values do not all have
\* that format is returned unaltered, as text; older pandas parses each value
\* on its own.
ParseFecha(rows, i, strict) ==
  IF strict /\ \E j \in 1..Len(rows) : rows[j].fecha.time # rows[1].fecha.time
  THEN [k |-> "str", d |-> rows[i].fecha.d, time |-> rows[i].fecha.time]
  ELSE TsCell(rows[i].fecha.d)

\* A numeric column with an empty or a decimal field is float64.
ParseNum(rows, i) ==
  IF \E j \in 1..Len(rows) : ~IsIntText(rows[j].nivel)
  THEN IF rows[i].nivel = "" THEN NullNum("nan")
       ELSE FloatCell(NumOfText(rows[i].nivel))
  ELSE IntCell(NumOfText(rows[i].nivel))

\* The dtype of a column is inferred from all its fields: int64 when every
\* field is an integer, float64 when every field is a number or empty,
\* object (text) otherwise.  An empty field is NaN in every case.
ParseDesc(rows, i) ==
  LET t == rows[i].descripcion
      allNum == \A j \in 1..Len(rows) :
                   rows[j].descripcion = "" \/ IsNumText(rows[j].descripcion)
      allInt == \A j \in 1..Len(rows) : IsIntText(rows[j].descripcion)
  IN  IF t = "" THEN NullDesc("nan")
      ELSE IF allInt THEN [k |-> "int", s |-> t]
      ELSE IF allNum THEN [k |-> "float", s |-> IntTexts[NumOfText(t)]]
      ELSE StrCell(t)

ParseBool(rows, i) ==
  IF rows[i].completada = "" THEN NullBool("nan")
  ELSE BoolCell(rows[i].completada = "True")

\* read_csv raises ValueError when a parse_dates column is not in the file.
ReadRaises(file) == file.exists /\ "fecha" \notin file.cols

\* load_data(): the parsed columns of the file, a column of None for each
\* missing one, in COLUMNS order; an empty table when there is no file.
load_data(file, strict) ==
  IF ~file.exists THEN <<>>
  ELSE [i \in 1..Len(file.rows) |->
         [fecha |-> IF "fecha" \in file.cols
                    THEN ParseFecha(file.rows, i, strict) ELSE NoFecha,
          nivel |-> IF "nivel" \in file.cols
                    THEN ParseNum(file.rows, i) ELSE NullNum("none"),
          descripcion |-> IF "descripcion" \in file.cols
                          THEN ParseDesc(file.rows, i) ELSE NullDesc("none"),
          completada |-> IF "completada" \in file.cols
                         THEN ParseBool(file.rows, i) ELSE NullBool("none")]]

save_data(df) == to_csv(df)

\* ------------------------------------------------------------------- state
VARIABLES
  csv_file,       \* registro_tareas.csv
  strict,         \* the installed pandas parses dates strictly (pandas >= 2)
  pc,             \* per session: "off", "run", "body", "idle", "error"
  selected_date,  \* per session: value of st.date_input
  df_tasks,       \* per session: the DataFrame df_tasks of the current run
  df_today,       \* per session: df_tasks[mask_today].copy(), index -> row
  chk,            \* per session: state of the checkboxes chk_<idx>
  form,           \* per session: form_tareas as sent with the rerun
  view,           \* per session: what the last completed run rendered
  saved,          \* per session: the current run called save_data(df_tasks)
  nactions        \* number of user interactions so far

vars == <<csv_file, strict, pc, selected_date, df_tasks, df_today, chk, form,
          view, saved, nactions>>

EmptyFn == [x \in {} |-> FALSE]
NoForm == [submitted |-> FALSE, fields |-> <<"", "", "", "", "", "">>]
NoView == [mode |-> "none", rows |-> {}, completed |-> 0, total |-> 0,
           history |-> <<>>]

\* mask_today = df_tasks["fecha"] == pd.to_datetime(selected_date): only a
\* Timestamp of the same day compares equal; text and None never do.
mask_today(df, d) ==
  {i \in 1..Len(df) : df[i].fecha.k = "ts" /\ df[i].fecha.d = d}

\* new_rows with the texts of the two "Operativa" fields exchanged.
new_rows_swapped(d, fields) ==
  [i \in 1..Len(LEVEL_MAPPING) |->
     [fecha |-> DateCell(d),
      nivel |-> IntCell(LEVEL_MAPPING[i]),
      descripcion |-> StrCell(fields[IF i = 2 THEN 3 ELSE IF i = 3 THEN 2 ELSE i]),
      completada |-> BoolCell(FALSE)]]

\* new_rows of the submit branch.
new_rows(d, fields) ==
  [i \in 1..Len(LEVEL_MAPPING) |->
     [fecha |-> DateCell(d),
      nivel |-> IntCell(LEVEL_MAPPING[i]),
      descripcion |-> StrCell(fields[i]),
      completada |-> BoolCell(FALSE)]]

\* pd.concat([df_tasks, pd.DataFrame(new_rows)], ignore_index=True).  The
\* values are kept; a float64 nivel column and the int64 one of new_rows give
\* a float64 column.
concat(df, new) ==
  LET floatNivel == Len(df) > 0 /\
                    \A i \in 1..Len(df) : df[i].nivel.k \in {"float", "nan"}
  IN  df \o [i \in 1..Len(new) |->
               IF floatNivel
               THEN [new[i] EXCEPT !.nivel = FloatCell(new[i].nivel.n)]
               ELSE new[i]]

\* Sort key of a fecha value: Timestamps order by day; texts order as
\* strings, where "d" < "d 00:00:00" < "d+1".
FechaKey(c) == 2 * c.d + (IF c.time THEN 1 ELSE 0)

\* Index labels of the rows whose fecha key is at most key, by decreasing
\* key, rows of equal key in index order.
RECURSIVE SortedFrom(_, _)
SortedFrom(df, key) ==
  IF key < 0 THEN <<>>
  ELSE SelectSeq([i \in 1..Len(df) |-> i],
                 LAMBDA i : FechaKey(df[i].fecha) = key)
       \o SortedFrom(df, key - 1)

\* sort_values without ascending=False: index labels by increasing fecha.
RECURSIVE SortedUpTo(_, _, _)
SortedUpTo(df, key, max) ==
  IF key > max THEN <<>>
  ELSE SelectSeq([i \in 1..Len(df) |-> i],
                 LAMBDA i : FechaKey(df[i].fecha) = key)
       \o SortedUpTo(df, key + 1, max)

sort_values_ascending(df) == SortedUpTo(df, 0, 2 * MaxDate + 1)

\* df.sort_values("fecha", ascending=False): index labels by decreasing
\* fecha.  The order among rows of equal fecha is the one of a stable sort;
\* pandas' default quicksort leaves it unspecified.
sort_values(df) == SortedFrom(df, 2 * MaxDate + 1)

head(seq, n) == SubSeq(seq, 1, IF Len(seq) < n THEN Len(seq) ELSE n)

\* The sidebar "Historial" (lines 140-148): index labels of the rows shown.
Historial(df) ==
  IF Len(df) > 0 THEN head(sort_values(df), HistoryRows) ELSE <<>>

\* bool(value) as st.checkbox applies it to its default: None is falsy, NaN
\* is truthy.
Truthy(c) == IF c.k = "bool" THEN c.b ELSE c.k = "nan"

\* Value returned by st.checkbox(value=row["completada"], key="chk_<idx>"):
\* the state of the widget when it was rendered by the previous run with the
\* same default, the default otherwise.
checkbox(state, idx, row) ==
  IF idx \in DOMAIN state /\ state[idx].def = Truthy(row.completada)
  THEN state[idx].val
  ELSE Truthy(row.completada)

\* An assignment to the whole column instead of the cell at idx.
at_completada_column(df, idx, done) ==
  [i \in 1..Len(df) |-> [df[i] EXCEPT !.completada = BoolCell(done)]]

\* df_tasks.at[idx, "completada"] = done
at_completada(df, idx, done) == [df EXCEPT ![idx].completada = BoolCell(done)]

\* The loop of lines 123-133 from index label idx on: each row of today whose
\* checkbox value differs from its loaded flag is updated in df.
RECURSIVE checklist_loop(_, _, _, _)
checklist_loop(df, today, done, idx) ==
  IF idx > Len(df) THEN df
  ELSE IF idx \in DOMAIN today /\ BoolCell(done[idx]) # today[idx].completada
       THEN checklist_loop(at_completada(df, idx, done[idx]), today, done,
                           idx + 1)
       ELSE checklist_loop(df, today, done, idx + 1)

\* df_today["completada"].sum()
SumCompletada(today) ==
  Cardinality({i \in DOMAIN today :
                 today[i].completada.k = "bool" /\ today[i].completada.b})

\* ------------------------------------------------------------------ actions
\* Lines 83-91: load the table and filter the rows of the selected date.
RunLoad(s) ==
  /\ pc[s] = "run"
  /\ IF ReadRaises(csv_file)
     THEN /\ pc' = [pc EXCEPT ![s] = "error"]
          /\ UNCHANGED <<df_tasks, df_today, saved>>
     ELSE LET df == load_data(csv_file, strict)
          IN  /\ df_tasks' = [df_tasks EXCEPT ![s] = df]
              /\ df_today' = [df_today EXCEPT ![s] =
                   [i \in mask_today(df, selected_date[s]) |-> df[i]]]
              /\ saved' = [saved EXCEPT ![s] = FALSE]
              /\ pc' = [pc EXCEPT ![s] = "body"]
  /\ UNCHANGED <<csv_file, strict, selected_date, chk, form, view, nactions>>

\* Lines 96-105 and 140-148: no row of the date, the form is rendered and
\* was not submitted.
ShowForm(s) ==
  /\ pc[s] = "body"
  /\ DOMAIN df_today[s] = {}
  /\ ~form[s].submitted
  /\ view' = [view EXCEPT ![s] =
       [mode |-> "form", rows |-> {}, completed |-> 0, total |-> 0,
        history |-> Historial(df_tasks[s])]]
  /\ chk' = [chk EXCEPT ![s] = EmptyFn]
  /\ pc' = [pc EXCEPT ![s] = "idle"]
  /\ UNCHANGED <<csv_file, strict, selected_date, df_tasks, df_today, form,
                 saved, nactions>>

\* A submit branch that appends to the table as the file holds it now (a
\* reload under a lock) instead of the table this run loaded.
SubmitNewDayMerging(s) ==
  /\ pc[s] = "body"
  /\ DOMAIN df_today[s] = {}
  /\ form[s].submitted
  /\ LET df == concat(load_data(csv_file, strict),
                      new_rows(selected_date[s], form[s].fields))
     IN  /\ df_tasks' = [df_tasks EXCEPT ![s] = df]
         /\ csv_file' = save_data(df)
  /\ saved' = [saved EXCEPT ![s] = TRUE]
  /\ form' = [form EXCEPT ![s] = NoForm]
  /\ chk' = [chk EXCEPT ![s] = EmptyFn]
  /\ pc' = [pc EXCEPT ![s] = "run"]
  /\ UNCHANGED <<strict, selected_date, df_today, view, nactions>>

\* Lines 107-119: the submitted form appends the six rows, saves and asks
\* for a rerun (st.rerun() ends the run before the sidebar).
SubmitNewDay(s) ==
  /\ pc[s] = "body"
  /\ DOMAIN df_today[s] = {}
  /\ form[s].submitted
  /\ LET df == concat(df_tasks[s], new_rows(selected_date[s], form[s].fields))
     IN  /\ df_tasks' = [df_tasks EXCEPT ![s] = df]
         /\ csv_file' = save_data(df)
  /\ saved' = [saved EXCEPT ![s] = TRUE]
  /\ form' = [form EXCEPT ![s] = NoForm]
  /\ chk' = [chk EXCEPT ![s] = EmptyFn]
  /\ pc' = [pc EXCEPT ![s] = "run"]
  /\ UNCHANGED <<strict, selected_date, df_today, view, nactions>>

\* Lines 120-148: the checklist loop, the progress summary and the sidebar.
\* Every row whose checkbox differs from the loaded flag is updated in
\* df_tasks and the table is saved after each update; the summary is
\* computed from the copy df_today.
Checklist(s) ==
  /\ pc[s] = "body"
  /\ DOMAIN df_today[s] # {}
  /\ LET today == df_today[s]
         done == [idx \in DOMAIN today |-> checkbox(chk[s], idx, today[idx])]
         changed == {idx \in DOMAIN today :
                       BoolCell(done[idx]) # today[idx].completada}
         df == checklist_loop(df_tasks[s], today, done, 1)
     IN  /\ df_tasks' = [df_tasks EXCEPT ![s] = df]
         /\ csv_file' = IF changed # {} THEN save_data(df) ELSE csv_file
         /\ saved' = [saved EXCEPT ![s] = (changed # {})]
         /\ chk' = [chk EXCEPT ![s] =
              [idx \in DOMAIN today |->
                 [val |-> done[idx], def |-> Truthy(today[idx].completada)]]]
         /\ view' = [view EXCEPT ![s] =
              [mode |-> "checklist", rows |-> DOMAIN today,
               completed |-> SumCompletada(today),
               total |-> Cardinality(DOMAIN today),
               history |-> Historial(df)]]
  /\ form' = [form EXCEPT ![s] = NoForm]
  /\ pc' = [pc EXCEPT ![s] = "idle"]
  /\ UNCHANGED <<strict, selected_date, df_today, nactions>>

\* The user picks another date in st.date_input.
SelectDate(s, d) ==
  /\ pc[s] = "idle"
  /\ d # selected_date[s]
  /\ nactions < MaxActions
  /\ selected_date' = [selected_date EXCEPT ![s] = d]
  /\ nactions' = nactions + 1
  /\ pc' = [pc EXCEPT ![s] = "run"]
  /\ UNCHANGED <<csv_file, strict, df_tasks, df_today, chk, form, view,
                 saved>>

\* The user fills the rendered form and presses "Guardar tareas del dia".
Submit(s, fields) ==
  /\ pc[s] = "idle"
  /\ view[s].mode = "form"
  /\ nactions < MaxActions
  /\ form' = [form EXCEPT ![s] = [submitted |-> TRUE, fields |-> fields]]
  /\ nactions' = nactions + 1
  /\ pc' = [pc EXCEPT ![s] = "run"]
  /\ UNCHANGED <<csv_file, strict, selected_date, df_tasks, df_today, chk,
                 view, saved>>

\* The user clicks one of the rendered checkboxes.
Toggle(s, idx) ==
  /\ pc[s] = "idle"
  /\ idx \in DOMAIN chk[s]
  /\ nactions < MaxActions
  /\ chk' = [chk EXCEPT ![s][idx].val = ~chk[s][idx].val]
  /\ nactions' = nactions + 1
  /\ pc' = [pc EXCEPT ![s] = "run"]
  /\ UNCHANGED <<csv_file, strict, selected_date, df_tasks, df_today, form,
                 view, saved>>

Next ==
  \E s \in Sessions :
    \/ RunLoad(s)
    \/ ShowForm(s)
    \/ SubmitNewDay(s)
    \/ Checklist(s)
    \/ \E d \in Dates : SelectDate(s, d)
    \/ \E f \in FormInputs : Submit(s, f)
    \/ \E idx \in DOMAIN chk[s] : Toggle(s, idx)

\* ------------------------------------------------------------ specifications
InitWith(active, files) ==
  /\ csv_file \in files
  /\ strict \in BOOLEAN
  /\ pc = [s \in Sessions |-> IF s \in active THEN "run" ELSE "off"]
  /\ \E d \in Dates : selected_date = [s \in Sessions |-> d]
  /\ df_tasks = [s \in Sessions |-> <<>>]
  /\ df_today = [s \in Sessions |-> EmptyFn]
  /\ chk = [s \in Sessions |-> EmptyFn]
  /\ form = [s \in Sessions |-> NoForm]
  /\ view = [s \in Sessions |-> NoView]
  /\ saved = [s \in Sessions |-> FALSE]
  /\ nactions = 0

\* The file left by an earlier use of the page on which the plan of day 1
\* was submitted.
OneDayFile ==
  save_data(concat(<<>>, new_rows(1, <<"a", "b", "", "a", "b", "">>)))

\* The file left by an earlier use of the page on which the plans of days 1
\* and 2 were submitted, in that order.
PriorFile ==
  save_data(concat(load_data(OneDayFile, FALSE),
                   new_rows(2, <<"a", "b", "", "a", "b", "">>)))

\* One browser session; the first run finds no store file or the file of an
\* earlier use.
Init == InitWith({"A"}, {NoFile, PriorFile})
Spec == Init /\ [][Next]_vars

\* Two browser sessions on the store file of an earlier use.
InitConc == InitWith({"A", "B"}, {OneDayFile})
SpecConc == InitConc /\ [][Next]_vars

\* file without the column c (a store written by something else).
DropCol(file, c) ==
  [file EXCEPT !.cols = @ \ {c},
               !.rows = [i \in 1..Len(file.rows) |->
                  [fecha |-> IF c = "fecha" THEN NoText ELSE file.rows[i].fecha,
                   nivel |-> IF c = "nivel" THEN "" ELSE file.rows[i].nivel,
                   descripcion |-> IF c = "descripcion" THEN ""
                                   ELSE file.rows[i].descripcion,
                   completada |-> IF c = "completada" THEN ""
                                  ELSE file.rows[i].completada]]]

\* One session whose first run finds a store file that lacks one column.
InitExt == InitWith({"A"}, {DropCol(PriorFile, c) : c \in AllCols})
SpecExt == InitExt /\ [][Next]_vars

\* ------------------------------------------------------------------ claims
\* The calendar day a fecha value or a fecha text names.
DayOf(c) == c.d

RowsOfDay(df, d) == {i \in 1..Len(df) : DayOf(df[i].fecha) = d}

\* C1: in a run that detects a changed checkbox and saves, the table saved
\* is the loaded table with the completada flag of that one row set to the
\* checkbox value; every other cell and the number and order of the rows are
\* those of the loaded table, and the file holds that table.
C1_ToggleChangesOneFlag ==
  [][\A s \in Sessions :
       (pc[s] = "body" /\ pc'[s] = "idle" /\ saved'[s]) =>
         \E idx \in DOMAIN df_today[s] :
           /\ df_tasks'[s] =
                [df_tasks[s] EXCEPT ![idx].completada = BoolCell(chk'[s][idx].val)]
           /\ df_tasks'[s][idx].completada # df_tasks[s][idx].completada
           /\ csv_file' = to_csv(df_tasks'[s])]_vars

\* C1 witness: a run of the checklist has just saved a toggled flag while
\* the table holds rows of another date as well.
C1_Witness ==
  /\ pc["A"] = "idle" /\ saved["A"] /\ view["A"].mode = "checklist"
  /\ Len(df_tasks["A"]) > Cardinality(view["A"].rows)

\* C2: a submitted form for a date without rows in the loaded table saves
\* the loaded table followed by six rows of that date, not completed, with
\* nivel 1,2,2,3,3,3 and the six form texts in form order.
C2_SubmitAppendsSix ==
  [][\A s \in Sessions :
       (pc[s] = "body" /\ pc'[s] = "run" /\ saved'[s]
          /\ RowsOfDay(df_tasks[s], selected_date[s]) = {}) =>
         LET old == df_tasks[s]
             new == df_tasks'[s]
         IN  /\ Len(new) = Len(old) + 6
             /\ SubSeq(new, 1, Len(old)) = old
             /\ \A i \in 1..6 :
                  /\ new[Len(old) + i].fecha = DateCell(selected_date[s])
                  /\ new[Len(old) + i].nivel = IntCell(<<1, 2, 2, 3, 3, 3>>[i])
                  /\ new[Len(old) + i].descripcion = StrCell(form[s].fields[i])
                  /\ new[Len(old) + i].completada = BoolCell(FALSE)
             /\ csv_file' = to_csv(new)]_vars

\* C2 witness: a new day has just been appended to a table that had rows.
C2_Witness ==
  /\ pc["A"] = "run" /\ saved["A"]
  /\ Len(df_tasks["A"]) = 18
  /\ RowsOfDay(df_tasks["A"], selected_date["A"]) = 13..18

\* Equality of two tables as the round trip is meant: same rows in the same
\* order, each fecha naming the same day, every other field the same value.
TableEq(t1, t2) ==
  /\ Len(t1) = Len(t2)
  /\ \A i \in 1..Len(t1) :
       /\ DayOf(t1[i].fecha) = DayOf(t2[i].fecha)
       /\ t1[i].nivel = t2[i].nivel
       /\ t1[i].descripcion = t2[i].descripcion
       /\ t1[i].completada = t2[i].completada

\* C3: loading what save_data wrote returns the table that was saved, for
\* every table the page saves.
C3_RoundTrip ==
  \A s \in Sessions :
    saved[s] => TableEq(load_data(save_data(df_tasks[s]), strict), df_tasks[s])

\* C4: no step removes a row of the store or changes its fecha, nivel or
\* descripcion; the number of rows never decreases.
C4_NeverDeleted ==
  [][csv_file.exists =>
       /\ Len(csv_file'.rows) >= Len(csv_file.rows)
       /\ \A i \in 1..Len(csv_file.rows) :
            /\ DayOf(csv_file'.rows[i].fecha) = DayOf(csv_file.rows[i].fecha)
            /\ csv_file'.rows[i].nivel = csv_file.rows[i].nivel
            /\ csv_file'.rows[i].descripcion = csv_file.rows[i].descripcion]_vars

\* C5: a save replaces the file by the table built from what the saving
\* session loaded (its rows, with flags of the selected date changed or six
\* rows appended), whatever another session wrote since that load: the last
\* write wins, nothing is merged and no session fails.
C5_LastWriteWins ==
  [][\A s \in Sessions :
       (pc[s] = "body" /\ saved'[s]) =>
         /\ csv_file' = save_data(df_tasks'[s])
         /\ Len(df_tasks'[s]) \in {Len(df_tasks[s]), Len(df_tasks[s]) + 6}
         /\ \A i \in 1..Len(df_tasks[s]) :
              \/ df_tasks'[s][i] = df_tasks[s][i]
              \/ /\ i \in DOMAIN df_today[s]
                 /\ df_tasks'[s][i] =
                      [df_tasks[s][i] EXCEPT !.completada = df_tasks'[s][i].completada]
         /\ pc'[s] # "error"]_vars

\* C5 witness: session b saved a toggle, then session a, which had loaded
\* before that save, saved a toggle of another row; the flag b set is not
\* in the file and both runs completed normally.
C5_Witness ==
  \E a, b \in Sessions :
    /\ a # b /\ saved[a] /\ saved[b]
    /\ pc[a] = "idle" /\ pc[b] = "idle"
    /\ csv_file = save_data(df_tasks[a])
    /\ \E i \in 1..Len(df_tasks[b]) :
         /\ df_tasks[b][i].completada = BoolCell(TRUE)
         /\ csv_file.rows[i].completada = "False"

\* C6: a completed run rendered the form exactly when the table has no row
\* of the selected date and the checklist exactly when it has one; the
\* checklist holds exactly the rows of that date.
C6_FormIffNoRows ==
  \A s \in Sessions :
    pc[s] = "idle" =>
      LET rows == RowsOfDay(df_tasks[s], selected_date[s])
      IN  /\ view[s].mode = "form" <=> rows = {}
          /\ view[s].mode = "checklist" <=> rows # {}
          /\ view[s].rows = rows

\* C7: loading a store file never raises, also when it lacks a column.
C7_LoadNeverRaises == \A s \in Sessions : pc[s] # "error"

\* C8: after a completed run the history shows min(14, rows) distinct rows
\* of the table in non-increasing fecha order, and no row left out is of a
\* later day than a row shown.
C8_History ==
  \A s \in Sessions :
    pc[s] = "idle" =>
      LET df == df_tasks[s]
          h == view[s].history
          shown == Range(h)
      IN  /\ Len(h) = (IF Len(df) < 14 THEN Len(df) ELSE 14)
          /\ shown \subseteq 1..Len(df)
          /\ Cardinality(shown) = Len(h)
          /\ \A r \in 1..(Len(h) - 1) :
               DayOf(df[h[r]].fecha) >= DayOf(df[h[r + 1]].fecha)
          /\ \A i \in shown : \A j \in (1..Len(df)) \ shown :
               DayOf(df[j].fecha) <= DayOf(df[i].fecha)

\* C8 witness: the table has more than 14 rows of several days and 14 are
\* shown.
C8_Witness ==
  /\ pc["A"] = "idle"
  /\ Len(df_tasks["A"]) > 14
  /\ Len(view["A"].history) = 14
  /\ \E i, j \in 1..Len(df_tasks["A"]) :
       DayOf(df_tasks["A"][i].fecha) # DayOf(df_tasks["A"][j].fecha)

\* C9: every date has no row or exactly six rows in the store, with nivel
\* 1,2,2,3,3,3 in that order.
C9_SixPerDate ==
  csv_file.exists =>
    \A d \in Dates :
      LET idx == {i \in 1..Len(csv_file.rows) : DayOf(csv_file.rows[i].fecha) = d}
      IN  \/ idx = {}
          \/ /\ Cardinality(idx) = 6
             /\ \E first \in idx :
                  /\ idx = first..(first + 5)
                  /\ \A i \in 0..5 :
                       csv_file.rows[first + i].nivel = IntTexts[<<1, 2, 2, 3, 3, 3>>[i + 1]]

\* C10: after a run of the checklist the summary shows the number of rows of
\* the date and the number of them that are completed in the table as the
\* run left it.
C10_ProgressMatches ==
  \A s \in Sessions :
    (pc[s] = "idle" /\ view[s].mode = "checklist") =>
      /\ view[s].total = Cardinality(view[s].rows)
      /\ view[s].completed =
           Cardinality({i \in view[s].rows :
                          df_tasks[s][i].completada = BoolCell(TRUE)})

====
